---------------------------- MODULE Spec2Model ----------------------------
(***************************************************************************)
(* A model of brutal (src/src/main.rs): the Wordle feedback derivation,    *)
(* the candidate filter, the recursive scorer with its depth-indexed       *)
(* scratch buffers, and the worker/collector pipeline of main.             *)
(*                                                                         *)
(* Characters are strings of length one, "_" being the blank the code      *)
(* writes over consumed positions.  A Word is a function from the code's   *)
(* 0-based positions 0..WORD_LENGTH-1 to characters.  A Vec is a sequence  *)
(* (1-based), so the code's v[0] is v[1] here.  An f32 is modelled as an   *)
(* exact fraction <<numerator, denominator>> in lowest terms.              *)
(***************************************************************************)
EXTENDS Integers, Sequences, FiniteSets, TLC

WORD_LENGTH == 5
GUESS_LIMIT == 6

\* Bounds of the model.
NumLetters == 2      \* letters of the alphabet the derivation harness enumerates
MaxTextLen == 6      \* longest text handed to Word::from_str
MaxPool == 6         \* length of the list the scorer's pools are cut from
MaxThreads == 2      \* largest --threads value
MaxSearch == 2       \* longest search list

Blank == "_"

Min(a, b) == IF a < b THEN a ELSE b

Positions == 0 .. (WORD_LENGTH - 1)

\* struct Word([char; WORD_LENGTH]), written from a 5-tuple of characters.
Word(s) == [i \in Positions |-> s[i + 1]]

Letters == <<"A", "L", "O", "Y", "C", "R", "N", "E", "T">>

Alphabet == {Letters[k] : k \in 1 .. NumLetters}

ALLOY == Word(<<"A", "L", "L", "O", "Y">>)
LOLLY == Word(<<"L", "O", "L", "L", "Y">>)
CRANE == Word(<<"C", "R", "A", "N", "E">>)
CRATE == Word(<<"C", "R", "A", "T", "E">>)

\* enum Constraint
Green(c, i) == <<"Green", c, i>>
Yellow(c, i) == <<"Yellow", c, i>>
Gray(c) == <<"Gray", c>>

\* word.0.contains(c)
Contains(w, c) == \E j \in Positions : w[j] = c

\* iter().position(|d| d == c), and iter_mut().find(|d| *d == c): the first
\* position holding c (the caller has established that there is one).
FirstPosition(w, c) == CHOOSE j \in Positions :
                          /\ w[j] = c
                          /\ \A k \in Positions : k < j => w[k] # c

\* buffer.clear()
clear(buffer) == << >>

\* GreenPass with the two assignments of '_' left out: C7_DerivedScenario
\* fails on it.
RECURSIVE GreenPassKeep(_, _)
GreenPassKeep(st, i) ==
    IF i = WORD_LENGTH THEN st
    ELSE IF st.answer[i] = st.guess[i]
         THEN GreenPassKeep([st EXCEPT !.buffer = Append(st.buffer, Green(st.guess[i], i))],
                            i + 1)
         ELSE GreenPassKeep(st, i + 1)

\* First loop of get_constraints: exact matches, consumed in both copies.
RECURSIVE GreenPass(_, _)
GreenPass(st, i) ==
    IF i = WORD_LENGTH THEN st
    ELSE IF st.answer[i] = st.guess[i]
         THEN GreenPass([answer |-> [st.answer EXCEPT ![i] = Blank],
                         guess  |-> [st.guess EXCEPT ![i] = Blank],
                         buffer |-> Append(st.buffer, Green(st.guess[i], i))],
                        i + 1)
         ELSE GreenPass(st, i + 1)

\* YellowPass without answer.0[j] = '_': C1_DerivationSound fails on it.
RECURSIVE YellowPassNoConsume(_, _)
YellowPassNoConsume(st, i) ==
    IF i = WORD_LENGTH THEN st
    ELSE IF st.guess[i] # Blank /\ Contains(st.answer, st.guess[i])
         THEN YellowPassNoConsume([answer |-> st.answer,
                                   guess  |-> [st.guess EXCEPT ![i] = Blank],
                                   buffer |-> Append(st.buffer, Yellow(st.guess[i], i))],
                                  i + 1)
         ELSE YellowPassNoConsume(st, i + 1)

\* Second loop: displaced matches, consuming the first remaining occurrence
\* in the answer copy.
RECURSIVE YellowPass(_, _)
YellowPass(st, i) ==
    IF i = WORD_LENGTH THEN st
    ELSE IF st.guess[i] # Blank /\ Contains(st.answer, st.guess[i])
         THEN YellowPass([answer |-> [st.answer EXCEPT
                                        ![FirstPosition(st.answer, st.guess[i])] = Blank],
                          guess  |-> [st.guess EXCEPT ![i] = Blank],
                          buffer |-> Append(st.buffer, Yellow(st.guess[i], i))],
                         i + 1)
         ELSE YellowPass(st, i + 1)

\* buffer.contains(&constraint)
BufferContains(buffer, constraint) ==
    \E k \in 1 .. Len(buffer) : buffer[k] = constraint

\* GrayPass without the buffer.contains test: C3_DuplicateLetters fails on it.
RECURSIVE GrayPassRepeat(_, _)
GrayPassRepeat(st, i) ==
    IF i = WORD_LENGTH THEN st
    ELSE IF st.guess[i] # Blank
         THEN GrayPassRepeat([st EXCEPT !.buffer = Append(st.buffer, Gray(st.guess[i]))],
                             i + 1)
         ELSE GrayPassRepeat(st, i + 1)

\* Third loop: one Gray per distinct unmatched character.
RECURSIVE GrayPass(_, _)
GrayPass(st, i) ==
    IF i = WORD_LENGTH THEN st
    ELSE IF st.guess[i] # Blank /\ ~BufferContains(st.buffer, Gray(st.guess[i]))
         THEN GrayPass([st EXCEPT !.buffer = Append(st.buffer, Gray(st.guess[i]))],
                       i + 1)
         ELSE GrayPass(st, i + 1)

\* fn get_constraints(answer, guess, buffer): the buffer's new contents.
get_constraints(answer, guess, buffer) ==
    GrayPass(YellowPass(GreenPass([answer |-> answer, guess |-> guess,
                                   buffer |-> clear(buffer)], 0), 0), 0).buffer

\* fn passes_constraint(word, constraint)
passes_constraint(word, constraint) ==
    CASE constraint[1] = "Green"  -> word[constraint[3]] = constraint[2]
      [] constraint[1] = "Yellow" -> /\ Contains(word, constraint[2])
                                     /\ word[constraint[3]] # constraint[2]
      [] constraint[1] = "Gray"   -> ~Contains(word, constraint[2])

\* Consume with the Yellow arm doing nothing: C9_AnswerSurvives fails on it.
ConsumeGreenOnly(characters, constraint) ==
    CASE constraint[1] = "Green"  -> [characters EXCEPT ![constraint[3]] = Blank]
      [] constraint[1] = "Yellow" -> characters
      [] constraint[1] = "Gray"   -> characters

\* The match in passes_constraints that consumes what a constraint accounted for.
Consume(characters, constraint) ==
    CASE constraint[1] = "Green"  -> [characters EXCEPT ![constraint[3]] = Blank]
      [] constraint[1] = "Yellow" ->
           [characters EXCEPT ![FirstPosition(characters, constraint[2])] = Blank]
      [] constraint[1] = "Gray"   -> characters

RECURSIVE PassesFrom(_, _, _)
PassesFrom(characters, constraints, k) ==
    IF k > Len(constraints) THEN TRUE
    ELSE IF ~passes_constraint(characters, constraints[k]) THEN FALSE
    ELSE PassesFrom(Consume(characters, constraints[k]), constraints, k + 1)

\* fn passes_constraints(word, constraints)
passes_constraints(word, constraints) == PassesFrom(word, constraints, 1)

\* fn filter_word_list(words, constraints, buffer): the buffer's new contents.
filter_word_list(words, constraints, buffer) ==
    clear(buffer) \o SelectSeq(words, LAMBDA w : passes_constraints(w, constraints))


(***************************************************************************)
(* f32 arithmetic, on exact fractions.                                     *)
(***************************************************************************)
RECURSIVE GCD(_, _)
GCD(a, b) == IF b = 0 THEN a ELSE GCD(b, a % b)

Frac(n, d) == <<n \div GCD(n, d), d \div GCD(n, d)>>

Float(n) == <<n, 1>>

FAdd(x, y) == Frac(x[1] * y[2] + y[1] * x[2], x[2] * y[2])

FMul(x, y) == Frac(x[1] * y[1], x[2] * y[2])

\* x / y, for y > 0
FDiv(x, y) == Frac(x[1] * y[2], x[2] * y[1])

FLess(x, y) == x[1] * y[2] < y[1] * x[2]

FLeq(x, y) == x[1] * y[2] <= y[1] * x[2]

(***************************************************************************)
(* Slices of the scratch buffers.  A &mut [Vec<T>] is a view of the        *)
(* worker's vector from an offset on: vec is the whole vector, off the     *)
(* number of leading buffers the slice leaves out.                         *)
(***************************************************************************)
Slice(vec, off) == [vec |-> vec, off |-> off]

SliceLen(s) == Len(s.vec) - s.off

\* The recursive call handed the caller's own slice: C10_BuffersSafe fails
\* on it.
split_at_mut_whole(s) == s

\* The right half of s.split_at_mut(1); the left half is s[0].
split_at_mut(s) == [s EXCEPT !.off = @ + 1]

\* vec![Vec::with_capacity(..); GUESS_LIMIT]
FreshBuffers == [d \in 1 .. GUESS_LIMIT |-> << >>]

Sentinel == <<Float(0), Float(0)>>

\* The budget test with > for >=: C4_BaseCases fails on it.
BudgetSpentLate(starting_guess) == starting_guess > GUESS_LIMIT

\* if starting_guess >= GUESS_LIMIT
BudgetSpent(starting_guess) == starting_guess >= GUESS_LIMIT

(***************************************************************************)
(* fn get_score.  The result carries what the call returns (score), what   *)
(* it leaves in the two buffer vectors, whether an index was out of range  *)
(* (panicked), and a record of every call made (calls):                    *)
(*   starting_guess         the attempt number the call was given          *)
(*   is_answer              whether its guess is the answer                *)
(*   off, len               the offset and length of its buffer slices     *)
(*   kind                   "solved", "exhausted" or "recursive"           *)
(*   next_len, has_answer   the length of word_buffers[0] after            *)
(*                          filter_word_list, and whether it holds the     *)
(*                          answer                                         *)
(*   pool_kept              whether word_buffers[0] is the same when the   *)
(*                          loop over it ends                              *)
(*   wrote                  whether the call changed any buffer            *)
(*   kept_outer             whether the buffers before its slice are as    *)
(*                          they were                                      *)
(*   score                  the pair it returns                            *)
(***************************************************************************)
InSeq(x, seq) == \E k \in 1 .. Len(seq) : seq[k] = x

Call(answer, guess, starting_guess, cb, wb, kind, next_pool, cvec, wvec, score) ==
    [starting_guess |-> starting_guess, is_answer |-> (guess = answer),
     off |-> cb.off, len |-> Min(SliceLen(cb), SliceLen(wb)), kind |-> kind,
     next_len |-> Len(next_pool), has_answer |-> InSeq(answer, next_pool),
     pool_kept |-> (kind = "recursive" /\ SliceLen(wb) >= 1)
                      => wvec[wb.off + 1] = next_pool,
     wrote |-> (cvec # cb.vec \/ wvec # wb.vec),
     kept_outer |-> /\ \A j \in 1 .. cb.off : cvec[j] = cb.vec[j]
                    /\ \A j \in 1 .. wb.off : wvec[j] = wb.vec[j],
     score |-> score]

RECURSIVE get_score(_, _, _, _, _, _)
RECURSIVE ScoreLoop(_, _, _, _, _)

\* The for loop of get_score over next_words[0], from its k-th word on.
\* acc holds guesses_sum, success_sum and the buffer vectors as they stand.
ScoreLoop(answer, starting_guess, off, k, acc) ==
    IF acc.panicked \/ k > Len(acc.word_buffers[off + 1]) THEN acc
    ELSE LET next_words == acc.word_buffers[off + 1]
             r == get_score(answer, next_words[k], next_words, starting_guess + 1,
                            split_at_mut(Slice(acc.constraint_buffers, off)),
                            split_at_mut(Slice(acc.word_buffers, off)))
         IN ScoreLoop(answer, starting_guess, off, k + 1,
                      [guesses_sum |-> FAdd(acc.guesses_sum, FMul(r.score[1], r.score[2])),
                       success_sum |-> FAdd(acc.success_sum, r.score[2]),
                       constraint_buffers |-> r.constraint_buffers,
                       word_buffers |-> r.word_buffers,
                       calls |-> acc.calls \cup r.calls,
                       panicked |-> r.panicked])

\* What a call that returns before its first use of a buffer hands back.
Return(answer, guess, starting_guess, cb, wb, kind, score, panicked) ==
    [score |-> score, constraint_buffers |-> cb.vec, word_buffers |-> wb.vec,
     panicked |-> panicked,
     calls |-> {Call(answer, guess, starting_guess, cb, wb, kind, << >>,
                     cb.vec, wb.vec, score)}]

get_score(answer, guess, words, starting_guess, constraint_buffers, word_buffers) ==
    IF answer = guess
    THEN Return(answer, guess, starting_guess, constraint_buffers, word_buffers,
                "solved", <<Float(starting_guess), Float(1)>>, FALSE)
    ELSE IF BudgetSpent(starting_guess)
    THEN Return(answer, guess, starting_guess, constraint_buffers, word_buffers,
                "exhausted", Sentinel, FALSE)
    ELSE IF SliceLen(constraint_buffers) < 1 \/ SliceLen(word_buffers) < 1
    THEN \* constraint_buffers[0] or word_buffers[0] of an empty slice: a panic
         Return(answer, guess, starting_guess, constraint_buffers, word_buffers,
                "recursive", Sentinel, TRUE)
    ELSE LET off == constraint_buffers.off
             cvec == [constraint_buffers.vec EXCEPT
                        ![off + 1] = get_constraints(answer, guess, @)]
             wvec == [word_buffers.vec EXCEPT
                        ![off + 1] = filter_word_list(words, cvec[off + 1], @)]
             acc == ScoreLoop(answer, starting_guess, off, 1,
                              [guesses_sum |-> Float(0), success_sum |-> Float(0),
                               constraint_buffers |-> cvec, word_buffers |-> wvec,
                               calls |-> {}, panicked |-> FALSE])
             next_words == acc.word_buffers[off + 1]
             score == IF FLess(Float(0), acc.success_sum)
                      THEN <<FDiv(acc.guesses_sum, acc.success_sum),
                             FDiv(acc.success_sum, Float(Len(next_words)))>>
                      ELSE Sentinel
         IN [score |-> score,
             constraint_buffers |-> acc.constraint_buffers,
             word_buffers |-> acc.word_buffers, panicked |-> acc.panicked,
             calls |-> acc.calls \cup
                       {Call(answer, guess, starting_guess, constraint_buffers,
                             word_buffers, "recursive", wvec[off + 1],
                             acc.constraint_buffers, acc.word_buffers, score)}]

(***************************************************************************)
(* State.                                                                  *)
(*   text, parsed, rendered: an input of Word::from_str, its result        *)
(*     (<<"None">> before the call), and the result of to_string on the    *)
(*     word it gave (<<"None">> before the call).                          *)
(*   answer, guess, words, constraint_buffers, word_buffers, score, calls, *)
(*     phase: one worker's view of get_score: its arguments, the worker's  *)
(*     two buffer vectors, the pair returned, the calls made, the number   *)
(*     of answers the worker's loop has scored.                            *)
(*   answer_words .. collector: main and its threads (see the pipeline).   *)
(***************************************************************************)
VARIABLES text, parsed, rendered,
          answer, guess, words, constraint_buffers, word_buffers, score, calls, scored,
          phase,
          answer_words, guess_words, search_words, threads,
          search_queue, pc, worker, completed, channel, word_scores, file, collector

codecVars == <<text, parsed, rendered>>
scoreVars == <<answer, guess, words, constraint_buffers, word_buffers, score, calls,
               scored, phase>>
mainVars == <<answer_words, guess_words, search_words, threads,
              search_queue, pc, worker, completed, channel, word_scores, file,
              collector>>
vars == <<codecVars, scoreVars, mainVars>>

\* The parts of the state a specification does not exercise stay as they start.
CodecIdle == text = << >> /\ parsed = <<"None">> /\ rendered = <<"None">>

ScoreIdle == /\ answer = CRANE /\ guess = CRANE /\ words = << >>
             /\ constraint_buffers = FreshBuffers /\ word_buffers = FreshBuffers
             /\ score = Sentinel /\ calls = {} /\ scored = 0 /\ phase = "idle"

MainIdle == /\ answer_words = << >> /\ guess_words = << >> /\ search_words = << >>
            /\ threads = 0 /\ search_queue = << >> /\ pc = << >> /\ worker = << >>
            /\ completed = FALSE /\ channel = << >> /\ word_scores = << >>
            /\ file = << >> /\ collector = "idle"

(***************************************************************************)
(* Derivation and filter, applied as get_score applies them (lines 140 and *)
(* 141) to every answer and guess of DeriveWords.                          *)
(***************************************************************************)
RECURSIVE SetToSeq(_)
SetToSeq(S) == IF S = {} THEN << >>
               ELSE LET x == CHOOSE y \in S : TRUE
                    IN <<x>> \o SetToSeq(S \ {x})

DeriveWords == [Positions -> Alphabet] \cup {ALLOY, LOLLY, CRANE, CRATE}

DerivePool == SetToSeq(DeriveWords)

DeriveInit == /\ CodecIdle /\ MainIdle
              /\ answer \in DeriveWords /\ guess \in DeriveWords
              /\ words = DerivePool
              /\ constraint_buffers = FreshBuffers /\ word_buffers = FreshBuffers
              /\ score = Sentinel /\ calls = {} /\ scored = 0 /\ phase = "input"

\* get_constraints(answer, guess, &mut constraint_buffers[0])
DeriveConstraints ==
    /\ phase = "input"
    /\ constraint_buffers' = [constraint_buffers EXCEPT
                                ![1] = get_constraints(answer, guess, @)]
    /\ phase' = "derived"
    /\ UNCHANGED <<answer, guess, words, word_buffers, score, calls, scored,
                   codecVars, mainVars>>

\* filter_word_list(words, &constraint_buffers[0], &mut word_buffers[0])
FilterWords ==
    /\ phase = "derived"
    /\ word_buffers' = [word_buffers EXCEPT
                          ![1] = filter_word_list(words, constraint_buffers[1], @)]
    /\ phase' = "filtered"
    /\ UNCHANGED <<answer, guess, words, constraint_buffers, score, calls, scored,
                   codecVars, mainVars>>

DeriveNext == DeriveConstraints \/ FilterWords

SpecDerive == DeriveInit /\ [][DeriveNext]_vars

\* Occurrences of character c in word w.
Count(w, c) == Cardinality({i \in Positions : w[i] = c})

\* Indices of the constraints of one kind about c in a buffer.
OfKind(buffer, kinds, c) ==
    {k \in 1 .. Len(buffer) : buffer[k][1] \in kinds /\ buffer[k][2] = c}

\* Guess positions of the Green and Yellow constraints of a buffer.
Matched(buffer) ==
    {buffer[k][3] : k \in {j \in 1 .. Len(buffer) : buffer[j][1] \in {"Green", "Yellow"}}}

\* The first guess position whose c no Green or Yellow accounts for.
FirstUnmatched(buffer, g, c) ==
    CHOOSE i \in Positions :
        /\ g[i] = c /\ i \notin Matched(buffer)
        /\ \A j \in Positions : (g[j] = c /\ j \notin Matched(buffer)) => i <= j

KindRank(constraint) == CASE constraint[1] = "Green" -> 1
                          [] constraint[1] = "Yellow" -> 2
                          [] constraint[1] = "Gray" -> 3

\* Where in the guess a constraint comes from.
GuessPosition(buffer, g, constraint) ==
    IF constraint[1] = "Gray" THEN FirstUnmatched(buffer, g, constraint[2])
    ELSE constraint[3]

Derived == phase \in {"derived", "filtered"}

\* C1: the answer passes the constraints derived from its own comparison
\* against any guess.
C1_DerivationSound ==
    Derived => passes_constraints(answer, constraint_buffers[1])

\* A derivation with a displaced repeated letter and a Gray for the same letter.
C1_Witness ==
    /\ phase = "derived" /\ answer = ALLOY /\ guess = LOLLY
    /\ Len(constraint_buffers[1]) = 5

\* C2: every word the filter retains would have received the same feedback
\* as the answer did, and so has no guess letter at a position where that
\* letter was reported Yellow or Gray.
C2_RetainedConsistent ==
    phase = "filtered" =>
        \A k \in 1 .. Len(word_buffers[1]) :
            get_constraints(word_buffers[1][k], guess, << >>) = constraint_buffers[1]

\* C3: a letter occurring M times in the guess and N times in the answer gets
\* min(M, N) Green/Yellow constraints and one Gray exactly when M > N; Greens
\* come first, then Yellows, then Grays, each group in guess-position order.
C3_DuplicateLetters ==
    Derived =>
        LET b == constraint_buffers[1] IN
        /\ \A c \in {guess[i] : i \in Positions} \cup {answer[i] : i \in Positions} :
              /\ Cardinality(OfKind(b, {"Green", "Yellow"}, c))
                   = Min(Count(guess, c), Count(answer, c))
              /\ Cardinality(OfKind(b, {"Gray"}, c))
                   = IF Count(guess, c) > Count(answer, c) THEN 1 ELSE 0
        /\ \A j, k \in 1 .. Len(b) :
              j < k => \/ KindRank(b[j]) < KindRank(b[k])
                       \/ /\ KindRank(b[j]) = KindRank(b[k])
                          /\ GuessPosition(b, guess, b[j]) < GuessPosition(b, guess, b[k])
        /\ (answer = ALLOY /\ guess = LOLLY) =>
              b = <<Green("L", 2), Green("Y", 4), Yellow("L", 0), Yellow("O", 1), Gray("L")>>

\* A guess with three of a letter the answer has once: one Yellow, one Gray.
C3_Witness ==
    /\ phase = "derived"
    /\ \E c \in Alphabet :
          /\ Count(guess, c) = 3 /\ Count(answer, c) = 1
          /\ Cardinality(OfKind(constraint_buffers[1], {"Yellow"}, c)) = 1
          /\ Cardinality(OfKind(constraint_buffers[1], {"Gray"}, c)) = 1

(***************************************************************************)
(* The scorer, called as a worker calls it (lines 283 to 303): for each    *)
(* answer of the answer list in turn, at attempt 1, with the whole of both *)
(* buffer vectors, which the worker allocates once, so that each call      *)
(* finds what the calls before it left there.                              *)
(***************************************************************************)
CRAVE == Word(<<"C", "R", "A", "V", "E">>)
CRAZE == Word(<<"C", "R", "A", "Z", "E">>)
CRAKE == Word(<<"C", "R", "A", "K", "E">>)
CRAPE == Word(<<"C", "R", "A", "P", "E">>)

\* The answer list of the scoring harness; its guess lists are cut from the
\* first MaxPool words.
ScoreList == <<CRANE, CRATE, CRAVE, ALLOY, CRAZE, CRAKE, LOLLY, CRAPE>>

ScoreWords == {ScoreList[k] : k \in 1 .. Len(ScoreList)}

\* The words of list at the indices in S, in the list's order.
RECURSIVE Pick(_, _, _)
Pick(list, S, k) == IF k > Len(list) THEN << >>
                    ELSE (IF k \in S THEN <<list[k]>> ELSE << >>) \o Pick(list, S, k + 1)

Pools == {Pick(ScoreList, S, 1) : S \in SUBSET (1 .. MaxPool)}

ScoreInit == /\ CodecIdle /\ MainIdle
             /\ guess \in ScoreWords /\ words \in Pools /\ answer = guess
             /\ constraint_buffers = FreshBuffers /\ word_buffers = FreshBuffers
             /\ score = Sentinel /\ calls = {} /\ scored = 0 /\ phase = "ready"

\* One pass of the worker's loop over the answers: get_score(answer, &guess,
\* &guess_words, 1, &mut constraint_buffers, &mut word_buffers).
Score ==
    /\ phase \in {"ready", "scored"}
    /\ scored < Len(ScoreList)
    /\ LET r == get_score(ScoreList[scored + 1], guess, words, 1,
                          Slice(constraint_buffers, 0), Slice(word_buffers, 0))
       IN /\ answer' = ScoreList[scored + 1]
          /\ constraint_buffers' = r.constraint_buffers
          /\ word_buffers' = r.word_buffers
          /\ score' = r.score
          /\ calls' = r.calls
          /\ phase' = IF r.panicked THEN "panicked" ELSE "scored"
    /\ scored' = scored + 1
    /\ UNCHANGED <<guess, words, codecVars, mainVars>>

ScoreNext == Score

SpecScore == ScoreInit /\ [][ScoreNext]_vars

\* C4: a call whose guess is the answer returns (attempt number, 1), at
\* attempt 6 too; a call whose guess is not the answer at attempt 6 or later
\* returns the sentinel (0, 0); neither writes a scratch buffer.
C4_BaseCases ==
    phase = "scored" =>
        \A c \in calls :
            /\ c.starting_guess \in 1 .. GUESS_LIMIT
            /\ c.is_answer =>
                  c.score = <<Float(c.starting_guess), Float(1)>> /\ ~c.wrote
            /\ (~c.is_answer /\ c.starting_guess >= GUESS_LIMIT) =>
                  c.score = Sentinel /\ ~c.wrote

\* One run of get_score that solves at attempt 6 on one branch and runs out
\* of budget at attempt 6 on another needs six surviving candidates; the
\* witness is a run that solves at attempt 6.
C4_Witness ==
    /\ phase = "scored"
    /\ \E c \in calls : /\ c.is_answer /\ c.starting_guess = GUESS_LIMIT
                        /\ c.score = <<Float(GUESS_LIMIT), Float(1)>>

\* C9: when the answer is in the pool of the top-level call, every call
\* with another guess and an attempt number below 6 filters to a pool that
\* still holds the answer, and returns a success probability above 0 with
\* expected guesses above its attempt number and at most 6.
C9_AnswerSurvives ==
    (phase = "scored" /\ InSeq(answer, words)) =>
        \A c \in calls :
            (~c.is_answer /\ c.starting_guess < GUESS_LIMIT) =>
                /\ c.has_answer /\ c.next_len > 0
                /\ FLess(Float(0), c.score[2])
                /\ FLess(Float(c.starting_guess), c.score[1])
                /\ FLeq(c.score[1], Float(GUESS_LIMIT))

\* The answer is in the pool and is reached only at the last attempt of a
\* branch: a wrong guess at attempt 5 whose filtered pool is the answer alone.
C9_Witness ==
    /\ phase = "scored" /\ InSeq(answer, words)
    /\ \E c \in calls : /\ ~c.is_answer /\ c.starting_guess = GUESS_LIMIT - 1
                        /\ c.has_answer /\ c.next_len = 1
                        /\ c.score = <<Float(GUESS_LIMIT), Float(1)>>

\* C10: no call indexes a buffer out of range: a call that reaches the
\* recursive case is at attempt 5 or earlier and holds at least one buffer of
\* each kind; a call at attempt n works on the buffers from index n-1 on and
\* leaves the earlier ones, and so the pool its caller iterates over, as
\* they were; the score returned is the one fresh buffers give.
C10_BuffersSafe ==
    /\ phase # "panicked"
    /\ phase = "scored" =>
          /\ \A c \in calls :
                /\ c.off = c.starting_guess - 1
                /\ c.kind = "recursive" =>
                      c.starting_guess <= GUESS_LIMIT - 1 /\ c.len >= 1
                /\ c.kept_outer
                /\ c.pool_kept
          /\ score = get_score(answer, guess, words, 1,
                               Slice(FreshBuffers, 0), Slice(FreshBuffers, 0)).score

\* A later call of the worker's loop, on buffers that earlier calls filled
\* down to the deepest level, that itself recurses to attempt 5.
C10_Witness ==
    /\ phase = "scored" /\ scored >= 2
    /\ \E c \in calls : c.kind = "recursive" /\ c.starting_guess = GUESS_LIMIT - 1
    /\ \E c \in calls : ~c.is_answer /\ c.starting_guess = GUESS_LIMIT
    /\ word_buffers[GUESS_LIMIT - 1] # << >>

(***************************************************************************)
(* Word::from_str and to_string.  A text is a sequence of characters; its  *)
(* len() is the number of bytes of its UTF-8 encoding.                     *)
(***************************************************************************)
CodecChars == {"a", "_", "e-acute", "euro-sign"}

\* char::len_utf8
len_utf8(c) == CASE c = "e-acute" -> 2
                 [] c = "euro-sign" -> 3
                 [] OTHER -> 1

\* str::len
RECURSIVE len(_)
len(value) == IF value = << >> THEN 0 ELSE len_utf8(Head(value)) + len(Tail(value))

\* impl FromStr for Word
from_str(value) ==
    IF len(value) = WORD_LENGTH
    THEN <<"Ok", [i \in Positions |-> IF i + 1 <= Len(value) THEN value[i + 1] ELSE Blank]>>
    ELSE <<"Err", "word has incorrect length">>

\* impl ToString for Word
to_string(word) == [k \in 1 .. WORD_LENGTH |-> word[k - 1]]

Texts == UNION {[1 .. n -> CodecChars] : n \in 0 .. MaxTextLen}

CodecInit == /\ ScoreIdle /\ MainIdle
             /\ text \in Texts /\ parsed = <<"None">> /\ rendered = <<"None">>

Parse == /\ parsed[1] = "None"
         /\ parsed' = from_str(text)
         /\ UNCHANGED <<text, rendered, scoreVars, mainVars>>

Render == /\ parsed[1] = "Ok" /\ rendered[1] = "None"
          /\ rendered' = <<"Some", to_string(parsed[2])>>
          /\ UNCHANGED <<text, parsed, scoreVars, mainVars>>

CodecNext == Parse \/ Render

SpecCodec == CodecInit /\ [][CodecNext]_vars

\* C8: from_str succeeds exactly on the texts of WORD_LENGTH characters, and
\* to_string gives back the text of every word it parsed.
C8_WordCodec ==
    /\ parsed[1] # "None" => (parsed[1] = "Ok" <=> Len(text) = WORD_LENGTH)
    /\ rendered[1] # "None" => rendered[2] = text

(***************************************************************************)
(* main: the worker threads, the channel and the collection thread.        *)
(*   search_queue   the Mutex<Vec<Word>>, the search list reversed         *)
(*   pc[w]          where thread w is: "pop" at the head of its while      *)
(*                  loop, "send" with a word popped and scored, "done"     *)
(*                  once returned, "panicked" once unwound                 *)
(*   worker[w]      the locals of thread w: the word it holds, its         *)
(*                  result, its two buffer vectors                         *)
(*   completed      whether main still holds its Sender                    *)
(*   channel        the messages sent and not yet received                 *)
(*   collector      "unspawned", "recv" or "done"                          *)
(*   word_scores    the collection thread's vector                         *)
(*   file           the lines of the output file, << >> before the first   *)
(*                  File::create (with an empty search list there is none) *)
(***************************************************************************)
Workers == 1 .. threads

\* search_words.iter().rev().copied().collect()
Reverse(seq) == [k \in 1 .. Len(seq) |-> seq[Len(seq) + 1 - k]]

\* The for loop of a worker over answer_words, from the k-th answer on.
RECURSIVE AnswerLoop(_, _, _, _, _)
AnswerLoop(g, answers, pool, k, acc) ==
    IF acc.panicked \/ k > Len(answers) THEN acc
    ELSE LET r == get_score(answers[k], g, pool, 1,
                            Slice(acc.constraint_buffers, 0),
                            Slice(acc.word_buffers, 0))
         IN AnswerLoop(g, answers, pool, k + 1,
                       [guesses_sum |-> FAdd(acc.guesses_sum, FMul(r.score[1], r.score[2])),
                        success_sum |-> FAdd(acc.success_sum, r.score[2]),
                        constraint_buffers |-> r.constraint_buffers,
                        word_buffers |-> r.word_buffers,
                        panicked |-> r.panicked])

\* Lines 305 to 311: guess_count and success_rate from the sums of the loop.
\* answers is not empty.
Aggregate(acc, answers) ==
    [guess_count |-> IF FLess(Float(0), acc.success_sum)
                     THEN FDiv(acc.guesses_sum, acc.success_sum)
                     ELSE Float(0),
     success_rate |-> FDiv(acc.success_sum, Float(Len(answers))),
     constraint_buffers |-> acc.constraint_buffers,
     word_buffers |-> acc.word_buffers,
     panicked |-> acc.panicked]

\* Lines 280 to 311: the pair a worker sends for the word g, and what its
\* buffers hold afterwards.
WordScore(g, answers, pool, cbufs, wbufs) ==
    Aggregate(AnswerLoop(g, answers, pool, 1,
                         [guesses_sum |-> Float(0), success_sum |-> Float(0),
                          constraint_buffers |-> cbufs, word_buffers |-> wbufs,
                          panicked |-> FALSE]),
              answers)

\* The collection thread without its sort: C5_DrainedReport fails on it.
sort_by_none(v) == v

\* word_scores.sort_by(|a, b| a.1 .0.partial_cmp(&b.1 .0).unwrap()): a stable
\* sort by guess_count, here by insertion from the left.
RECURSIVE sort_by(_)
sort_by(v) ==
    IF Len(v) <= 1 THEN v
    ELSE LET sorted == sort_by(SubSeq(v, 1, Len(v) - 1))
             x == v[Len(v)]
             p == Cardinality({k \in 1 .. Len(sorted) : FLeq(sorted[k][2][1], x[2][1])})
         IN SubSeq(sorted, 1, p) \o <<x>> \o SubSeq(sorted, p + 1, Len(sorted))

\* {:w.d}: x to d decimal places (scale = 10^d), nearest, ties to even, as
\* the integer x * 10^d.
Fixed(x, scale) ==
    LET n == x[1] * scale
        q == n \div x[2]
        r == n % x[2]
    IN IF 2 * r < x[2] THEN q
       ELSE IF 2 * r > x[2] THEN q + 1
       ELSE IF q % 2 = 0 THEN q ELSE q + 1

Header == <<"word,", "average,", "success">>

\* Lines 346 to 360: the file written from word_scores.
Report(scores) ==
    <<Header>> \o [k \in 1 .. Len(scores) |->
                    <<to_string(scores[k][1]), Fixed(scores[k][2][1], 1000),
                      Fixed(scores[k][2][2], 10000)>>]

\* The answer list, which is the guess list too, and the words of the
\* search lists.
PipeList == <<CRANE, CRATE>>

PipeWords == {CRANE, CRATE, ALLOY}

SearchLists == UNION {[1 .. n -> PipeWords] : n \in 0 .. MaxSearch}

NoWord == << >>

MainInit ==
    /\ CodecIdle /\ ScoreIdle
    /\ answer_words = PipeList /\ guess_words = answer_words
    /\ search_words \in SearchLists
    /\ threads \in 1 .. MaxThreads
    /\ search_queue = Reverse(search_words)
    /\ pc = [w \in Workers |-> "pop"]
    /\ worker = [w \in Workers |->
                   [guess |-> NoWord,
                    guess_count |-> Float(0), success_rate |-> Float(0),
                    constraint_buffers |-> FreshBuffers,
                    word_buffers |-> FreshBuffers]]
    /\ completed = TRUE
    /\ channel = << >>
    /\ word_scores = << >>
    /\ file = << >>
    /\ collector = "unspawned"

\* search_queue_guard.pop()
pop(queue) == SubSeq(queue, 1, Len(queue) - 1)

\* while let Some(guess) = search_queue.lock().unwrap().pop(), and the body
\* of the loop down to the send (lines 278 to 311), which touches nothing
\* another thread can see.
WorkerPop(w) ==
    /\ pc[w] = "pop"
    /\ search_queue # << >>
    /\ LET g == search_queue[Len(search_queue)]
           r == WordScore(g, answer_words, guess_words,
                          worker[w].constraint_buffers, worker[w].word_buffers)
       IN /\ pc' = [pc EXCEPT ![w] = IF r.panicked THEN "panicked" ELSE "send"]
          /\ worker' = [worker EXCEPT
                          ![w] = [guess |-> g,
                                  guess_count |-> r.guess_count,
                                  success_rate |-> r.success_rate,
                                  constraint_buffers |-> r.constraint_buffers,
                                  word_buffers |-> r.word_buffers]]
    /\ search_queue' = pop(search_queue)
    /\ UNCHANGED <<answer_words, guess_words, search_words, threads, completed,
                   channel, word_scores, file, collector, codecVars, scoreVars>>

\* pop() gives None: the thread returns and its Sender is dropped.
WorkerExit(w) ==
    /\ pc[w] = "pop"
    /\ search_queue = << >>
    /\ pc' = [pc EXCEPT ![w] = "done"]
    /\ UNCHANGED <<answer_words, guess_words, search_words, threads, search_queue,
                   worker, completed, channel, word_scores, file, collector,
                   codecVars, scoreVars>>

\* completed.send((guess, (guess_count, success_rate)))
WorkerSend(w) ==
    /\ pc[w] = "send"
    /\ channel' = Append(channel, <<worker[w].guess,
                                    <<worker[w].guess_count, worker[w].success_rate>>>>)
    /\ pc' = [pc EXCEPT ![w] = "pop"]
    /\ UNCHANGED <<answer_words, guess_words, search_words, threads, search_queue,
                   worker, completed, word_scores, file, collector,
                   codecVars, scoreVars>>

\* main without mem::drop(completed): its Sender lives on, recv() never
\* gives Err, and C6_PipelineCompletes fails.
SpawnWithoutDrop ==
    /\ completed
    /\ collector = "unspawned"
    /\ collector' = "recv"
    /\ UNCHANGED <<answer_words, guess_words, search_words, threads, search_queue,
                   pc, worker, completed, channel, word_scores, file,
                   codecVars, scoreVars>>

\* mem::drop(completed), and then thread::spawn of the collection thread
DropCompleted ==
    /\ completed
    /\ completed' = FALSE
    /\ collector' = "recv"
    /\ UNCHANGED <<answer_words, guess_words, search_words, threads, search_queue,
                   pc, worker, channel, word_scores, file, codecVars, scoreVars>>

\* recv() gives Ok: push, sort, rewrite the file.
CollectorRecv ==
    /\ collector = "recv"
    /\ channel # << >>
    /\ word_scores' = sort_by(Append(word_scores, Head(channel)))
    /\ file' = Report(word_scores')
    /\ channel' = Tail(channel)
    /\ UNCHANGED <<answer_words, guess_words, search_words, threads, search_queue,
                   pc, worker, completed, collector, codecVars, scoreVars>>

\* Whether any Sender is left: main's, or that of a thread still running.
SenderLeft == completed \/ \E w \in Workers : pc[w] \notin {"done", "panicked"}

\* recv() gives Err: the channel is empty and every Sender is dropped.
CollectorFinish ==
    /\ collector = "recv"
    /\ channel = << >>
    /\ ~SenderLeft
    /\ collector' = "done"
    /\ UNCHANGED <<answer_words, guess_words, search_words, threads, search_queue,
                   pc, worker, completed, channel, word_scores, file,
                   codecVars, scoreVars>>

Worker(w) == WorkerPop(w) \/ WorkerSend(w) \/ WorkerExit(w)

Collector == CollectorRecv \/ CollectorFinish

Next == \/ \E w \in Workers : WorkerPop(w)
        \/ \E w \in Workers : WorkerSend(w)
        \/ \E w \in Workers : WorkerExit(w)
        \/ DropCompleted
        \/ CollectorRecv
        \/ CollectorFinish

Spec == MainInit /\ [][Next]_vars

\* A thread at "pop" or at "send" can always take its step (the pop gives
\* Some or None, the channel is unbounded), and pc[w] moves in the steps of
\* Worker(w) and in no other.
Runnable(w) == w \in Workers /\ pc[w] \in {"pop", "send"}

Runs(w) == /\ Runnable(w)
           /\ pc' \in [Workers -> {"pop", "send", "done", "panicked"}]
           /\ pc'[w] # pc[w]

\* Every thread that can take a step eventually takes one.  For a worker
\* this is WF_vars(Worker(w)), written on its program counter.
Fairness == /\ \A w \in 1 .. MaxThreads : WF_pc(Runs(w))
            /\ WF_vars(DropCompleted)
            /\ WF_vars(Collector)

FairSpec == Spec /\ Fairness

(***************************************************************************)
(* Properties of the pipeline.                                             *)
(***************************************************************************)
\* How many entries of seq are x.
Occurs(x, seq) == Cardinality({k \in 1 .. Len(seq) : seq[k] = x})

\* The row of the search word g: its score on buffers nothing has used.
Row(g) ==
    <<g, <<WordScore(g, answer_words, guess_words, FreshBuffers, FreshBuffers).guess_count,
           WordScore(g, answer_words, guess_words, FreshBuffers, FreshBuffers).success_rate>>>>

\* The rows of the search list, in the order of the list: what one thread
\* sends, in the order it sends it.
ReferenceScores == [k \in 1 .. Len(search_words) |-> Row(search_words[k])]

Ascending(scores) ==
    \A k \in 1 .. Len(scores) - 1 : FLeq(scores[k][2][1], scores[k + 1][2][1])

SameRows(a, b) ==
    /\ Len(a) = Len(b)
    /\ \A k \in 1 .. Len(a) : Occurs(a[k], a) = Occurs(a[k], b)

\* Two different search words with the same guess_count.
Tie == \E j, k \in 1 .. Len(search_words) :
          /\ search_words[j] # search_words[k]
          /\ Row(search_words[j])[2][1] = Row(search_words[k])[2][1]

Drained ==
    /\ search_queue = << >>
    /\ \A w \in Workers : pc[w] = "done"
    /\ channel = << >>
    /\ ~SenderLeft
    /\ collector = "done"

EveryEntryOnce ==
    \A g \in PipeWords :
        Occurs(g, search_words) =
            Occurs(g, search_queue)
            + Cardinality({w \in Workers : pc[w] = "send" /\ worker[w].guess = g})
            + Cardinality({k \in 1 .. Len(channel) : channel[k][1] = g})
            + Cardinality({k \in 1 .. Len(word_scores) : word_scores[k][1] = g})

ReportHasEveryEntry ==
    /\ search_words = << >> => file = << >>
    /\ search_words # << >> => Len(file) = Len(search_words) + 1 /\ file[1] = Header
    /\ \A g \in PipeWords :
           Occurs(g, search_words) =
               Cardinality({k \in 2 .. Len(file) : file[k][1] = to_string(g)})

\* C6: whatever the number of threads and the scheduling, the run comes to
\* rest with the queue empty, every thread returned, the channel closed and
\* the collection thread finished, the report then holding one row for each
\* entry of the search list; on the way no entry is taken twice or lost.
C6_PipelineCompletes ==
    /\ []EveryEntryOnce
    /\ [](Drained => ReportHasEveryEntry)
    /\ <>[]Drained

\* Two threads have each scored a word of a two-word list with the same word
\* twice, and the run is drained.
C6_Witness ==
    /\ Drained /\ threads = 2
    /\ Len(search_words) = 2 /\ search_words[1] = search_words[2]
    /\ \A w \in Workers : worker[w].guess # NoWord

\* The feedback on CRATE for the answer CRANE as spec.md gives it.
StatedFeedback ==
    <<Green("C", 0), Green("R", 1), Yellow("A", 2), Gray("T"), Green("E", 4)>>

\* The feedback get_constraints gives: the A of CRATE stands where the A of
\* CRANE stands, and the Gray comes after every Green.
DerivedFeedback ==
    <<Green("C", 0), Green("R", 1), Green("A", 2), Green("E", 4), Gray("T")>>

\* A thread holds the score of CRATE, not yet sent.
ScoredCRATE(w) == pc[w] = "send" /\ worker[w].guess = CRATE

\* C7 as stated: for the guess CRATE and the answer CRANE the constraints
\* are StatedFeedback, and the pair sent for CRATE puts that branch together
\* with the (1, 1.0) of the answer CRATE.
C7_StatedScenario ==
    \A w \in Workers :
        ScoredCRATE(w) =>
            /\ worker[w].constraint_buffers[1] = StatedFeedback
            /\ worker[w].guess_count = Frac(2 + 1, 2)
            /\ worker[w].success_rate = Float(1)

\* C7, amended: for the guess CRATE and the answer CRANE the constraints are
\* Green(C,0), Green(R,1), Green(A,2), Green(E,4), Gray(T); that branch
\* scores (2, 1.0), and with the (1, 1.0) of the answer CRATE the pair sent
\* for CRATE is (1.5, 1.0).
C7_DerivedScenario ==
    \A w \in Workers :
        ScoredCRATE(w) =>
            /\ worker[w].constraint_buffers[1] = DerivedFeedback
            /\ get_constraints(CRANE, CRATE, << >>) = DerivedFeedback
            /\ get_score(CRANE, CRATE, guess_words, 1, Slice(FreshBuffers, 0),
                         Slice(FreshBuffers, 0)).score = <<Float(2), Float(1)>>
            /\ get_score(CRATE, CRATE, guess_words, 1, Slice(FreshBuffers, 0),
                         Slice(FreshBuffers, 0)).score = <<Float(1), Float(1)>>
            /\ worker[w].guess_count = Frac(2 + 1, 2)
            /\ worker[w].success_rate = Float(1)

C7_Witness == \E w \in Workers : ScoredCRATE(w) /\ answer_words = <<CRANE, CRATE>>

=============================================================================
